---- MODULE Spec2Model ----
(***************************************************************************)
(* Model of linter.py, the At_code_checker linter plugin.                  *)
(*                                                                         *)
(* A path is a sequence of path components (the text between the           *)
(* backslashes).  A str that may be None is a sequence of length 0 (None)  *)
(* or 1 (the value).  Directories on disk are identified by their          *)
(* lowercased path, as the file system the plugin runs on (Windows)        *)
(* compares names.                                                         *)
(***************************************************************************)
EXTENDS Integers, Sequences, FiniteSets, TLC

VARIABLES
    dirs,              \* directories that exist on disk (lowercased paths)
    denied,            \* directories os.mkdir refuses to create (lowercased)
    exes,              \* executable files that exist on disk
    winver,            \* major version reported by platform.win32_ver()
    tempFiles,         \* temp files on disk: records id, dir, buf, data
    Dir_Map,           \* At_code_checker.Dir_Map
    filename,          \* self.filename
    view,              \* self.view: the lines of the open buffer
    LastIncludeMatch,  \* self.LastIncludeMatch
    pc,                \* position inside tmpfile / _make_temp_file
    temp,              \* local variable temp of _make_temp_file
    call,              \* arguments of the running tmpfile call
    launched,          \* subprocess launches of the running tmpfile call
    last,              \* the last operation and what it returned
    envTouched         \* the file system was changed from outside

vars == <<dirs, denied, exes, winver, tempFiles, Dir_Map, filename, view,
          LastIncludeMatch, pc, temp, call, launched, last, envTouched>>

PyNone == <<>>
Some(x) == <<x>>

-----------------------------------------------------------------------------
(* Bounds of the model *)

MaxTemp == 2       \* temp file names NamedTemporaryFile can choose from
MaxLines == 2      \* lines of the open buffer
MaxTokens == 2     \* tokens of a diagnostic message

-----------------------------------------------------------------------------
(* Strings: str.lower() and the case-insensitive suffixes of RING_MATCHER *)

LowerTab ==
    "C:" :> "c:" @@ "c:" :> "c:" @@
    "Foo.Universe" :> "foo.universe" @@ "foo.universe" :> "foo.universe" @@
    "foo.Universe" :> "foo.universe" @@
    "Bar.Ring" :> "bar.ring" @@ "bar.ring" :> "bar.ring" @@
    "bar.Ring" :> "bar.ring" @@
    "Bar.Ring.Local" :> "bar.ring.local" @@
    "bar.Ring.Local" :> "bar.ring.local" @@
    "Code" :> "code" @@ "code" :> "code" @@
    "Work" :> "work" @@ "Temp" :> "temp" @@
    "DataDefs" :> "datadefs" @@
    "!DictionarySource" :> "!dictionarysource" @@
    "ProgramData" :> "programdata" @@ "Meditech" :> "meditech" @@
    "Application Data" :> "application data" @@
    "!AllUsers" :> "!allusers" @@ "Sys" :> "sys" @@
    "PgmCache" :> "pgmcache" @@ "Ring" :> "ring" @@
    "PgmSource" :> "pgmsource" @@
    "a.focus" :> "a.focus" @@ "b.focus" :> "b.focus" @@
    "SoloFocus.focus" :> "solofocus.focus"

Lower(p) == [i \in 1..Len(p) |-> LowerTab[p[i]]]

\* component -> the text before a case-insensitive ".Universe" suffix
UniverseStem == "Foo.Universe" :> "Foo" @@ "foo.universe" :> "foo"

\* component -> the text before a case-insensitive ".Ring" suffix
RingStem == "Bar.Ring" :> "Bar" @@ "bar.ring" :> "bar"

\* components that contain the needle as a substring (case-sensitive)
Containing(needle) ==
    CASE needle = "SoloFocus" -> {"SoloFocus.focus"}
      [] needle = "DataDefs" -> {"DataDefs"}
      [] needle = "!DictionarySource" -> {"!DictionarySource"}
      [] OTHER -> {}

\* needle in path; no needle contains a backslash
In(needle, p) == \E i \in 1..Len(p) : p[i] \in Containing(needle)

dirname(p) == SubSeq(p, 1, Len(p) - 1)
basename(p) == p[Len(p)]

\* RING_MATCHER.match(p): 0 when there is no match, otherwise the index of
\* the first component that ends in .Universe, is not the first component
\* and is followed by a component that ends in .Ring
RING_MATCHER(p) ==
    LET hits == {i \in 2..(Len(p) - 1) :
                    p[i] \in DOMAIN UniverseStem /\ p[i+1] \in DOMAIN RingStem}
    IN IF hits = {} THEN 0 ELSE CHOOSE i \in hits : \A j \in hits : i <= j

-----------------------------------------------------------------------------
(* The file system *)

gettempdir == <<"C:", "Temp">>

exists(p, ds) == Lower(p) \in ds
isdir(p, ds) == Lower(p) \in ds

Prefixes(p) == {SubSeq(p, 1, k) : k \in 1..Len(p)}

Least(S) == CHOOSE k \in S : \A j \in S : k <= j

\* the ancestors of lp (and lp) that do not exist, by their length
Missing(lp, ds) == {k \in 1..Len(lp) : SubSeq(lp, 1, k) \notin ds}

\* those of them that os.mkdir refuses to create
Refused(lp, ds, dn) == {k \in Missing(lp, ds) : SubSeq(lp, 1, k) \in dn}

\* os.makedirs on a lowercased path: it creates the missing ancestors from
\* the top, then the directory.  Result: the directories afterwards and the
\* error raised: "" (none), "EEXIST" (the directory exists) or "EACCES" (a
\* directory was refused; the ones above it were created).
mkdirs(lp, ds, missing, refused) ==
    IF missing = {} THEN [dirs |-> ds, err |-> "EEXIST"]
    ELSE IF refused = {}
    THEN [dirs |-> ds \cup {SubSeq(lp, 1, k) : k \in missing}, err |-> ""]
    ELSE [dirs |-> ds \cup {SubSeq(lp, 1, k) :
                               k \in {m \in missing : m < Least(refused)}},
          err |-> "EACCES"]

\* os.makedirs(p)
makedirs(p, ds, dn) ==
    mkdirs(Lower(p), ds, Missing(Lower(p), ds), Refused(Lower(p), ds, dn))

\* the except clause of create_dir: EEXIST is eaten, the rest is raised
eat_eexist(r) == [dirs |-> r.dirs, raised |-> r.err \notin {"", "EEXIST"}]

\* create_dir(dir_): the directories afterwards and whether OSError is raised
create_dir(p, ds, dn) == eat_eexist(makedirs(p, ds, dn))

-----------------------------------------------------------------------------
(* The temp directory of a file *)

ALLUSERSPROFILE == <<"C:", "ProgramData">>

\* At_code_checker.meditech_cache_root
meditech_cache_root(ver) ==
    IF ver <= 5 THEN ALLUSERSPROFILE \o <<"Application Data", "Meditech">>
    ELSE ALLUSERSPROFILE \o <<"Meditech">>

\* At_code_checker.meditech_pgmsource_cache
meditech_pgmsource_cache(ver, universe, ring) ==
    meditech_cache_root(ver) \o
        <<universe, ring, "!AllUsers", "Sys", "PgmCache", "Ring", "PgmSource">>

\* get_temp_dir returns base
return_base(ds, raised) == [path |-> gettempdir, dirs |-> ds, raised |-> raised]

\* get_temp_dir, the end: return base when create_dir raised, else temp_dir
return_created(temp_dir, c) ==
    IF c.raised THEN return_base(c.dirs, TRUE)
    ELSE [path |-> temp_dir, dirs |-> c.dirs, raised |-> FALSE]

\* get_temp_dir from codebase on: the directory of the codebase is created
\* inside temp_dir
in_codebase(f, temp_dir, ds, dn) ==
    return_created(temp_dir \o <<basename(dirname(f))>>,
                   create_dir(temp_dir \o <<basename(dirname(f))>>, ds, dn))

\* get_temp_dir after create_dir(temp_dir), whose result is c
after_create(f, temp_dir, c, dn) ==
    IF c.raised THEN return_base(c.dirs, TRUE)
    ELSE in_codebase(f, temp_dir, c.dirs, dn)

\* get_temp_dir once temp_dir is known
in_ring(f, temp_dir, ds, dn) ==
    IF exists(temp_dir, ds) THEN in_codebase(f, temp_dir, ds, dn)
    ELSE IF exists(dirname(temp_dir), ds)
    THEN after_create(f, temp_dir, create_dir(temp_dir, ds, dn), dn)
    ELSE return_base(ds, FALSE)

\* ring of get_temp_dir, for the match at component i + 1
ring_of(f, i) ==
    IF In("SoloFocus", f) THEN (RingStem[f[i + 1]] \o ".Ring") \o ".Local"
    ELSE RingStem[f[i + 1]] \o ".Ring"

\* temp_dir of get_temp_dir, for the match of RING_MATCHER at component i
temp_dir_of(f, ver, i) ==
    meditech_pgmsource_cache(ver, UniverseStem[f[i]] \o ".Universe", ring_of(f, i))

\* At_code_checker.get_temp_dir for self.filename = f: the path returned, the
\* directories afterwards and whether a create_dir raised OSError
get_temp_dir(f, ver, ds, dn) ==
    IF RING_MATCHER(f) = 0 THEN return_base(ds, FALSE)
    ELSE in_ring(f, temp_dir_of(f, ver, RING_MATCHER(f)), ds, dn)

\* tmpdir, the except KeyError clause: the directory is computed and stored
computed(key, fresh, dm) ==
    [path |-> fresh.path, Dir_Map |-> (key :> fresh.path) @@ dm,
     dirs |-> fresh.dirs, cached |-> FALSE, raised |-> fresh.raised]

\* tmpdir, the try clause after create_dir(path), whose result is c:
\* finally returns path, also when create_dir raised
recreated(path, dm, c) ==
    [path |-> path, Dir_Map |-> dm, dirs |-> c.dirs,
     cached |-> TRUE, raised |-> c.raised]

\* tmpdir, the try clause for the entry path of Dir_Map
cached(path, dm, ds, dn) ==
    IF isdir(path, ds)
    THEN [path |-> path, Dir_Map |-> dm, dirs |-> ds,
          cached |-> TRUE, raised |-> FALSE]
    ELSE recreated(path, dm, create_dir(path, ds, dn))

\* a tmpdir that computes the directory again when the cached one is gone
TmpdirRefresh(f, ver, dm, ds, dn) ==
    IF Lower(dirname(f)) \in DOMAIN dm /\ isdir(dm[Lower(dirname(f))], ds)
    THEN cached(dm[Lower(dirname(f))], dm, ds, dn)
    ELSE computed(Lower(dirname(f)), get_temp_dir(f, ver, ds, dn), dm)

\* At_code_checker.tmpdir for self.filename = f: the path returned, Dir_Map
\* and the directories afterwards, whether the entry was cached, and whether
\* a create_dir raised OSError on the way
tmpdir(f, ver, dm, ds, dn) ==
    IF Lower(dirname(f)) \in DOMAIN dm
    THEN cached(dm[Lower(dirname(f))], dm, ds, dn)
    ELSE computed(Lower(dirname(f)), get_temp_dir(f, ver, ds, dn), dm)

-----------------------------------------------------------------------------
(* tmpfile and _make_temp_file *)

\* the linted files of the model
RingFile == <<"C:", "Foo.Universe", "Bar.Ring", "Code", "a.focus">>
LowerRingFile == <<"c:", "foo.universe", "bar.ring", "code", "b.focus">>
SoloFile == <<"C:", "Foo.Universe", "Bar.Ring", "Code", "SoloFocus.focus">>
PlainFile == <<"C:", "Work", "a.focus">>
DataDefsFile == <<"C:", "Foo.Universe", "Bar.Ring", "DataDefs", "a.focus">>
DictFile == <<"C:", "Foo.Universe", "Bar.Ring", "!DictionarySource", "a.focus">>
Files == {RingFile, LowerRingFile, SoloFile, PlainFile, DataDefsFile, DictFile}

Codes == {"code1", "code2"}
\* the words of a command are paths of one component
Cmds == {<< <<"at_code_checker">>, <<"@">> >>, << <<"at_code_checker">> >>}

\* code.encode('utf-8')
Encode(code) == <<"utf-8", code>>

TempName(id) == "atcc-" \o ToString(id) \o ".focus"
TempPath(t) == t.dir \o <<TempName(t.id)>>

\* the cmd list tmpfile passes to _communicate
Cmdline(cmd, temp_path) ==
    IF \E i \in 1..Len(cmd) : cmd[i] = <<"@">>
    THEN LET at == CHOOSE i \in 1..Len(cmd) :
                       cmd[i] = <<"@">> /\ \A j \in 1..(i-1) : cmd[j] # <<"@">>
         IN [cmd EXCEPT ![at] = temp_path]
    ELSE Append(cmd, temp_path)

\* a guard that forgets !DictionarySource
SkippedDataDefsOnly(f) == In("DataDefs", f)

\* the guard of tmpfile: no run for DataDefs or !DictionarySource
Skipped(f) == In("DataDefs", f) \/ In("!DictionarySource", f)

\* a finally clause that removes the file only when nothing was raised
FinallyOnSuccess(tf, t, exc) ==
    IF t # PyNone /\ ~exc
    THEN {x \in tf : ~(x.id = t[1].id /\ x.dir = t[1].dir)}
    ELSE tf

\* the finally clause of _make_temp_file: the temp files afterwards
Finally(tf, t, exc) ==
    IF t # PyNone
    THEN {x \in tf : ~(x.id = t[1].id /\ x.dir = t[1].dir)}
    ELSE tf

EmptyMap == [k \in {} |-> <<>>]

InitLast == [op |-> "init", file |-> <<>>, skipped |-> FALSE, made |-> FALSE,
             outcome |-> "", out |-> "", td |-> PyNone]

IdleCall == [cmd |-> <<>>, code |-> "", exc |-> FALSE, out |-> ""]

FileOf(t) == CHOOSE x \in tempFiles : x.id = t[1].id /\ x.dir = t[1].dir

MatchVars == <<view, LastIncludeMatch>>

\* the temp file names NamedTemporaryFile can choose from in a directory
FreeNames(tf, dir) ==
    {i \in 1..MaxTemp : \A x \in tf : ~(x.id = i /\ Lower(x.dir) = Lower(dir))}

\* what is known of a tmpdir call that returned r for a file, where
\* get_temp_dir computes fresh for that file
TmpdirSeen(r, fresh, ds) ==
    Some([path |-> r.path, cached |-> r.cached, raised |-> r.raised,
          fresh |-> fresh.path, existed |-> isdir(r.path, ds)])

\* _make_temp_file up to the creation of the temp file in the directory
\* that tmpdir returned (r); td describes the tmpdir call
NamedTemporaryFile(cmd, code, r, td) ==
    /\ Dir_Map' = r.Dir_Map
    /\ dirs' = r.dirs
    /\ UNCHANGED launched
    /\ IF ~isdir(r.path, r.dirs) \/ FreeNames(tempFiles, r.path) = {}
       THEN \* NamedTemporaryFile raises, temp is still None
            /\ last' = [op |-> "tmpfile", file |-> filename,
                        skipped |-> FALSE, made |-> FALSE,
                        outcome |-> "raised", out |-> "", td |-> td]
            /\ UNCHANGED <<tempFiles, pc, temp, call>>
       ELSE \E id \in FreeNames(tempFiles, r.path) :
            /\ tempFiles' = tempFiles \cup
                   {[id |-> id, dir |-> r.path, buf |-> <<>>, data |-> <<>>]}
            /\ temp' = Some([id |-> id, dir |-> r.path])
            /\ call' = [cmd |-> cmd, code |-> code, exc |-> FALSE, out |-> ""]
            /\ pc' = "open"
            /\ last' = [op |-> "tmpfile", file |-> filename,
                        skipped |-> FALSE, made |-> TRUE,
                        outcome |-> "running", out |-> "", td |-> td]

\* tmpfile up to the creation of the temp file
tmpfile(cmd, code) ==
    /\ pc = "idle"
    /\ UNCHANGED <<denied, exes, winver, filename, MatchVars, envTouched>>
    /\ IF Skipped(filename)
       THEN /\ last' = [op |-> "tmpfile", file |-> filename, skipped |-> TRUE,
                        made |-> FALSE, outcome |-> "returned", out |-> "",
                        td |-> PyNone]
            /\ UNCHANGED <<dirs, tempFiles, Dir_Map, pc, temp, call, launched>>
       ELSE NamedTemporaryFile(cmd, code,
                tmpdir(filename, winver, Dir_Map, dirs, denied),
                TmpdirSeen(tmpdir(filename, winver, Dir_Map, dirs, denied),
                           get_temp_dir(filename, winver, dirs, denied), dirs))

\* temp.write(code), which may raise
write(ok) ==
    /\ pc = "open"
    /\ IF ok
       THEN /\ tempFiles' = (tempFiles \ {FileOf(temp)}) \cup
                   {[FileOf(temp) EXCEPT !.buf = Append(@, Encode(call.code))]}
            /\ pc' = "written"
            /\ UNCHANGED call
       ELSE /\ pc' = "cleanup"
            /\ call' = [call EXCEPT !.exc = TRUE]
            /\ UNCHANGED tempFiles
    /\ UNCHANGED <<dirs, denied, exes, winver, Dir_Map, filename, MatchVars,
                   temp, launched, last, envTouched>>

\* temp.flush(), which may raise
flush(ok) ==
    /\ pc = "written"
    /\ IF ok
       THEN /\ tempFiles' = (tempFiles \ {FileOf(temp)}) \cup
                   {[FileOf(temp) EXCEPT !.data = @ \o FileOf(temp).buf,
                                         !.buf = <<>>]}
            /\ pc' = "flushed"
            /\ UNCHANGED call
       ELSE /\ pc' = "cleanup"
            /\ call' = [call EXCEPT !.exc = TRUE]
            /\ UNCHANGED tempFiles
    /\ UNCHANGED <<dirs, denied, exes, winver, Dir_Map, filename, MatchVars,
                   temp, launched, last, envTouched>>

\* the with block of tmpfile: the cmd list is built and _communicate runs the
\* checker, which returns its output or raises
communicate(ok) ==
    /\ pc = "flushed"
    /\ launched' = launched \cup
           {[argv |-> Cmdline(call.cmd, TempPath(temp[1])),
             path |-> TempPath(temp[1]),
             onDisk |-> {x.data : x \in {y \in tempFiles :
                            y.id = temp[1].id /\ y.dir = temp[1].dir}},
             pending |-> {x.buf : x \in {y \in tempFiles :
                            y.id = temp[1].id /\ y.dir = temp[1].dir}}]}
    /\ call' = [call EXCEPT !.exc = ~ok, !.out = IF ok THEN "output" ELSE ""]
    /\ pc' = "cleanup"
    /\ UNCHANGED <<dirs, denied, exes, winver, tempFiles, Dir_Map, filename,
                   MatchVars, temp, last, envTouched>>

\* the finally clause of _make_temp_file, then tmpfile returns or raises
cleanup ==
    /\ pc = "cleanup"
    /\ tempFiles' = Finally(tempFiles, temp, call.exc)
    /\ temp' = PyNone
    /\ pc' = "idle"
    /\ last' = [last EXCEPT !.outcome = IF call.exc THEN "raised" ELSE "returned",
                            !.out = call.out]
    /\ call' = IdleCall
    /\ launched' = {}
    /\ UNCHANGED <<dirs, denied, exes, winver, Dir_Map, filename, MatchVars,
                   envTouched>>

-----------------------------------------------------------------------------
(* split_match *)

\* False, which is no str and not None
PyFalse == <<"False", "bool">>

\* the truth value of a str, None or False
Truthy(v) == v # PyNone /\ v # PyFalse /\ v # Some("")

\* A message is the sequence of its tokens, which single spaces separate.
\* The alternatives of the groups warning and error of regex that the model
\* uses, and the text that is neither
WarningWords == {"Line"}
ErrorWords == {"@HV without"}
NoDoc == "has no :Doc"
Tokens == WarningWords \cup ErrorWords \cup {NoDoc}

\* the group near, [^ (]+, matched at the start of a token; a near is, like
\* a message, a sequence of tokens
NearOf == "Line" :> "Line" @@ "@HV without" :> "@HV" @@ "has no :Doc" :> "has"

\* tokens that start with "@HV"
StartsWithHV == {"@HV without"}

line_col_base == <<1, 1>>

\* the groups of regex for a message: a keyword group matches only when a
\* space and a near token follow the keyword
regex(message) ==
    IF Len(message) >= 2 /\ message[1] \in WarningWords
    THEN [warning |-> Some(message[1]), error |-> PyNone,
          near |-> Some(<<NearOf[message[2]]>>)]
    ELSE IF Len(message) >= 2 /\ message[1] \in ErrorWords
    THEN [warning |-> PyNone, error |-> Some(message[1]),
          near |-> Some(<<NearOf[message[2]]>>)]
    ELSE [warning |-> PyNone, error |-> PyNone, near |-> PyNone]

\* Linter.split_match of the framework, on the groups of regex
Linter_split_match(match) ==
    IF match = PyNone
    THEN [match |-> PyNone, line |-> PyNone, col |-> PyNone, error |-> PyNone,
          warning |-> PyNone, message |-> <<>>, near |-> PyNone]
    ELSE LET g == regex(match[1].message)
         IN [match |-> match, line |-> Some(match[1].line - line_col_base[1]),
             col |-> PyNone, error |-> g.error, warning |-> g.warning,
             message |-> match[1].message, near |-> g.near]

\* message.find("has no :Doc") in tokens: the index of the first token that
\* is the text, counted from 0, or -1
find_no_doc(message) ==
    LET hits == {i \in 1..Len(message) : message[i] = NoDoc}
    IN IF hits = {} THEN -1
       ELSE (CHOOSE i \in hits : \A j \in hits : i <= j) - 1

\* a severity without the fallback to error
SeverityNoFallback(sup) ==
    LET message == sup.message
        no_doc_index == find_no_doc(message)
        error1 == IF no_doc_index > 0 THEN PyFalse ELSE sup.error
        warning1 == IF no_doc_index > 0 THEN Some("Warning") ELSE sup.warning
    IN [error |-> IF Truthy(error1) THEN Some(" ") ELSE error1,
        warning |-> IF Truthy(error1) THEN warning1
                    ELSE IF Truthy(warning1) THEN Some(" ") ELSE warning1,
        near |-> sup.near]

\* lines 174-187 of split_match: error, warning and near
severity(sup) ==
    LET message == sup.message
        no_doc_index == find_no_doc(message)
        error1 == IF no_doc_index > 0 THEN PyFalse ELSE sup.error
        warning1 == IF no_doc_index > 0 THEN Some("Warning") ELSE sup.warning
        near1 == IF no_doc_index > 0 THEN Some(SubSeq(message, 1, no_doc_index))
                 ELSE IF Len(message) > 0 /\ message[1] \in StartsWithHV
                      THEN Some(<<"@HV">>)
                      ELSE sup.near
    IN [error |-> IF Truthy(error1) THEN Some(" ")
                  ELSE IF Truthy(warning1) THEN error1 ELSE Some(" "),
        warning |-> IF Truthy(error1) THEN warning1
                    ELSE IF Truthy(warning1) THEN Some(" ") ELSE warning1,
        near |-> near1]

\* The open buffer is the sequence of its lines; no line is blank or starts
\* or ends with white space.
Lines == {"File A", "x"}
IncludeNames == {"A", "B"}

LineStart(v, i) == IF i = 1 THEN 0 ELSE
    LET S[j \in 1..i] == IF j = 1 THEN 0 ELSE S[j-1] + Len(v[j-1]) + 1
    IN S[i]

\* view.size()
size(v) == IF v = <<>> THEN 0 ELSE LineStart(v, Len(v)) + Len(v[Len(v)])

\* view.find(r"\s*File\s+" + name, 0): the first match, or None.  \s* takes
\* the line break before the marker, so the region of a marker that is not
\* on the first line begins at the end of the line before it.
find(v, name) ==
    LET hits == {i \in 1..Len(v) : v[i] = "File " \o name}
        i == CHOOSE k \in hits : \A j \in hits : k <= j
    IN IF hits = {} THEN PyNone
       ELSE Some([a |-> IF i = 1 THEN 0 ELSE LineStart(v, i) - 1,
                  b |-> LineStart(v, i) + Len(v[i])])

\* view.rowcol(pt)[0]: the row of the point, counted from 0
row(v, pt) ==
    LET at == IF pt > size(v) THEN size(v) ELSE pt
        starts == {i \in 1..Len(v) : LineStart(v, i) <= at}
    IN IF starts = {} THEN 0
       ELSE (CHOOSE i \in starts : \A j \in starts : j <= i) - 1

startswith_atcc(name) == name \notin IncludeNames

\* a lookup that forgets what it found
RememberNothing(lim, f, temp_name, region) == lim

\* LastIncludeMatch after a diagnostic of an include file was looked up
remember(lim, f, temp_name, region) == Some(<<f, temp_name, region>>)

\* At_code_checker.split_match for self.filename = f and self.view = v:
\* the tuple returned, LastIncludeMatch afterwards, and whether view.find ran
split_match(match, f, v, lim) ==
    LET sup == Linter_split_match(match)
        sev == severity(sup)
        own == [match |-> sup.match, line |-> sup.line, col |-> sup.col,
                error |-> sev.error, warning |-> sev.warning,
                message |-> Some(sup.message), near |-> sev.near]
    IN IF match = PyNone \/ startswith_atcc(match[1].filename)
       THEN [out |-> own, lim |-> lim, searched |-> FALSE]
       ELSE LET temp_name == match[1].filename
                hit == lim # PyNone /\ SubSeq(lim[1], 1, 2) = <<f, temp_name>>
                region == IF hit THEN lim[1][3] ELSE find(v, temp_name)
                lim1 == IF hit THEN lim ELSE remember(lim, f, temp_name, region)
            IN IF region # PyNone
               THEN [out |-> [own EXCEPT !.line = Some(row(v, region[1].a) + 1),
                                         !.near = Some(<<temp_name>>)],
                     lim |-> lim1, searched |-> ~hit]
               ELSE [out |-> [match |-> sup.match, line |-> PyNone, col |-> PyNone,
                              error |-> PyNone, warning |-> PyNone,
                              message |-> PyNone, near |-> PyNone],
                     lim |-> lim1, searched |-> ~hit]

FileVars == <<dirs, denied, tempFiles, Dir_Map, pc, temp, call, launched, envTouched>>

Messages == UNION {[1..n -> Tokens] : n \in 1..MaxTokens}
Matches == {PyNone} \cup
    {Some([filename |-> n, line |-> 7, message |-> m]) :
        n \in {"atcc-1.focus"} \cup IncludeNames, m \in Messages}
Views == UNION {[1..n -> Lines] : n \in 0..MaxLines}
MatchFiles == {RingFile, PlainFile}

\* the framework hands one match of regex to split_match
SplitMatch(match) ==
    LET r == split_match(match, filename, view, LastIncludeMatch)
    IN /\ LastIncludeMatch' = r.lim
       /\ last' = [op |-> "split_match", file |-> filename, match |-> match,
                   out |-> r.out, searched |-> r.searched]
       /\ UNCHANGED <<FileVars, exes, winver, filename, view>>

\* the user edits the buffer
Edit(v) ==
    /\ v # view
    /\ view' = v
    /\ last' = [op |-> "env", file |-> filename, match |-> PyNone,
                out |-> PyNone, searched |-> FALSE]
    /\ UNCHANGED <<FileVars, exes, winver, filename, LastIncludeMatch>>

\* the buffer is saved under another name
Rename(f) ==
    /\ f # filename
    /\ filename' = f
    /\ last' = [op |-> "env", file |-> f, match |-> PyNone,
                out |-> PyNone, searched |-> FALSE]
    /\ UNCHANGED <<FileVars, exes, winver, view, LastIncludeMatch>>

-----------------------------------------------------------------------------
(* The executable locator *)

\* os.path.expandvars("%PROGRAMFILES(X86)%")
PROGRAMFILES_X86 == <<"C:", "Program Files (x86)">>

\* sublime.packages_path()
packages_path == <<"C:", "Sublime Text 3", "Packages">>

get_mtad_linter_path ==
    PROGRAMFILES_X86 \o <<"MEDITECH", "M-AT Tools", "M-AT_Code_Checker">>

get_bundled_linter_path ==
    packages_path \o <<"SublimeLinter-contrib-at_code_checker", "at_code_checker">>

get_possible_paths ==
    << <<"mtad", get_mtad_linter_path>>, <<"bundled", get_bundled_linter_path>> >>

\* a or b, for paths that may be None
PyOr(a, b) == IF a # PyNone /\ Len(a[1]) > 0 THEN a ELSE b

\* At_code_checker.mtad_path, on the files ex that exist
mtad_path(cmd, ex) ==
    LET linter_path == get_mtad_linter_path \o <<cmd \o ".exe">>
    IN IF linter_path \in ex THEN Some(linter_path) ELSE PyNone

\* At_code_checker.bundled_path, on the files ex that exist
bundled_path(cmd, ex) ==
    LET linter_path == get_bundled_linter_path \o <<cmd \o ".exe">>
    IN IF linter_path \notin ex THEN PyNone ELSE Some(linter_path)

\* a which that prefers the bundled executable
WhichBundledFirst(cmd, ex) == PyOr(bundled_path(cmd, ex), mtad_path(cmd, ex))

\* At_code_checker.which, on the files ex that exist
which(cmd, ex) == PyOr(mtad_path(cmd, ex), bundled_path(cmd, ex))

\* ConfigureCodeCheckerCommand.run: the configuration utility started, if
\* any, and whether bundled_warning was called
run(ex) ==
    LET found == {i \in 1..Len(get_possible_paths) :
                     (get_possible_paths[i][2] \o <<"configuration.exe">>) \in ex}
        i == CHOOSE k \in found : \A j \in found : k <= j
    IN IF found = {} THEN [popen |-> PyNone, warned |-> FALSE]
       ELSE [popen |-> Some(get_possible_paths[i][2] \o <<"configuration.exe">>),
             warned |-> get_possible_paths[i][1] = "bundled"]

ExeFiles ==
    {get_possible_paths[i][2] \o <<n>> :
        i \in 1..2, n \in {"at_code_checker.exe", "configuration.exe"}}

WhichVars == <<dirs, denied, winver, tempFiles, Dir_Map, filename, view,
               LastIncludeMatch, pc, temp, call, launched, envTouched>>

\* the framework asks for the executable
Which(cmd) ==
    /\ last' = [op |-> "which", cmd |-> cmd, observed |-> exes,
                result |-> which(cmd, exes), warned |-> FALSE]
    /\ UNCHANGED <<WhichVars, exes>>

\* the user runs the command that configures the checker
Configure ==
    /\ last' = [op |-> "run", cmd |-> "configuration", observed |-> exes,
                result |-> run(exes).popen, warned |-> run(exes).warned]
    /\ UNCHANGED <<WhichVars, exes>>

\* an executable is installed or removed
ToggleExe(e) ==
    /\ exes' = IF e \in exes THEN exes \ {e} ELSE exes \cup {e}
    /\ UNCHANGED <<WhichVars, last>>

-----------------------------------------------------------------------------
(* The environment of the linter *)

PgmSource(ver) == Lower(meditech_pgmsource_cache(ver, "Foo.Universe", "Bar.Ring"))
PgmSourceLocal(ver) ==
    Lower(meditech_pgmsource_cache(ver, "Foo.Universe", "Bar.Ring.Local"))

BaseDirs(ver) == Prefixes(Lower(gettempdir)) \cup Prefixes(Lower(meditech_cache_root(ver)))
RingDirs(ver) ==
    BaseDirs(ver) \cup Prefixes(dirname(PgmSource(ver)))
                  \cup Prefixes(dirname(PgmSourceLocal(ver)))

EnvDirs(ver) == {dirname(PgmSource(ver)), PgmSource(ver), PgmSource(ver) \o <<"code">>}
DenyDirs(ver) == {PgmSource(ver), PgmSource(ver) \o <<"code">>}

IsPrefix(p, q) == Len(p) <= Len(q) /\ SubSeq(q, 1, Len(p)) = p

\* the framework points the linter at a file
SetFilename(f) ==
    /\ pc = "idle"
    /\ f # filename
    /\ filename' = f
    /\ last' = [InitLast EXCEPT !.op = "SetFilename"]
    /\ UNCHANGED <<dirs, denied, exes, winver, tempFiles, Dir_Map, MatchVars,
                   pc, temp, call, launched, envTouched>>

\* somebody deletes a directory tree
RemoveTree(d) ==
    /\ pc = "idle"
    /\ d \in dirs
    /\ dirs' = {x \in dirs : ~IsPrefix(d, x)}
    /\ envTouched' = TRUE
    /\ last' = [InitLast EXCEPT !.op = "env"]
    /\ UNCHANGED <<denied, exes, winver, tempFiles, Dir_Map, filename, MatchVars,
                   pc, temp, call, launched>>

\* somebody creates a directory
MakeTree(d) ==
    /\ pc = "idle"
    /\ d \notin dirs
    /\ dirs' = dirs \cup Prefixes(d)
    /\ envTouched' = TRUE
    /\ last' = [InitLast EXCEPT !.op = "env"]
    /\ UNCHANGED <<denied, exes, winver, tempFiles, Dir_Map, filename, MatchVars,
                   pc, temp, call, launched>>

\* the permission to create a directory changes
SetDenied(d) ==
    /\ pc = "idle"
    /\ denied' = IF d \in denied THEN denied \ {d} ELSE denied \cup {d}
    /\ envTouched' = TRUE
    /\ last' = [InitLast EXCEPT !.op = "env"]
    /\ UNCHANGED <<dirs, exes, winver, tempFiles, Dir_Map, filename, MatchVars,
                   pc, temp, call, launched>>

Init ==
    /\ winver \in {5, 6}
    /\ dirs \in {BaseDirs(winver), RingDirs(winver)}
    /\ denied \in {{}, {PgmSource(winver) \o <<"code">>}}
    /\ exes = {}
    /\ tempFiles = {}
    /\ Dir_Map = EmptyMap
    /\ filename \in Files
    /\ view = <<>>
    /\ LastIncludeMatch = PyNone
    /\ pc = "idle"
    /\ temp = PyNone
    /\ call = IdleCall
    /\ launched = {}
    /\ last = InitLast
    /\ envTouched = FALSE

Next ==
    \/ \E cmd \in Cmds, code \in Codes : tmpfile(cmd, code)
    \/ \E ok \in BOOLEAN : write(ok)
    \/ \E ok \in BOOLEAN : flush(ok)
    \/ \E ok \in BOOLEAN : communicate(ok)
    \/ cleanup
    \/ \E f \in Files : SetFilename(f)
    \/ \E d \in EnvDirs(winver) : RemoveTree(d)
    \/ \E d \in EnvDirs(winver) : MakeTree(d)
    \/ \E d \in DenyDirs(winver) : SetDenied(d)

Spec == Init /\ [][Next]_vars

InitMatch ==
    /\ winver = 6
    /\ dirs = BaseDirs(winver)
    /\ denied = {}
    /\ exes = {}
    /\ tempFiles = {}
    /\ Dir_Map = EmptyMap
    /\ filename \in MatchFiles
    /\ view \in Views
    /\ LastIncludeMatch = PyNone
    /\ pc = "idle"
    /\ temp = PyNone
    /\ call = IdleCall
    /\ launched = {}
    /\ last = [op |-> "init", file |-> filename, match |-> PyNone,
               out |-> PyNone, searched |-> FALSE]
    /\ envTouched = FALSE

NextMatch ==
    \/ \E match \in Matches : SplitMatch(match)
    \/ \E v \in Views : Edit(v)
    \/ \E f \in MatchFiles : Rename(f)

SpecMatch == InitMatch /\ [][NextMatch]_vars

InitWhich ==
    /\ winver = 6
    /\ dirs = BaseDirs(winver)
    /\ denied = {}
    /\ exes = {}
    /\ tempFiles = {}
    /\ Dir_Map = EmptyMap
    /\ filename = RingFile
    /\ view = <<>>
    /\ LastIncludeMatch = PyNone
    /\ pc = "idle"
    /\ temp = PyNone
    /\ call = IdleCall
    /\ launched = {}
    /\ last = [op |-> "init", cmd |-> "", observed |-> {}, result |-> PyNone,
               warned |-> FALSE]
    /\ envTouched = FALSE

NextWhich ==
    \/ \E cmd \in {"at_code_checker"} : Which(cmd)
    \/ Configure
    \/ \E e \in ExeFiles : ToggleExe(e)

SpecWhich == InitWhich /\ [][NextWhich]_vars

-----------------------------------------------------------------------------
(* Properties *)

\* C1: a checker is launched only on a temp file whose content is the
\* encoded buffer text, written and flushed, and whose path is an argument
\* of the command; once tmpfile has returned or raised no temp file exists.
C1_TempFileScoped ==
    /\ \A l \in launched :
          /\ l.onDisk = {<<Encode(call.code)>>}
          /\ l.pending = {<<>>}
          /\ \E i \in 1..Len(l.argv) : l.argv[i] = l.path
    /\ (pc = "idle" => tempFiles = {})

\* a call that created the temp file, launched nothing that returned
\* (write, flush or the checker raised) and has ended
C1_Witness ==
    /\ pc = "idle"
    /\ last.op = "tmpfile"
    /\ last.made
    /\ last.outcome = "raised"
    /\ tempFiles = {}

\* C2: whenever a create_dir raised OSError during a tmpdir call, tmpdir
\* returned the system default temp directory.
C2_FallsBackOnFailure ==
    (last.op = "tmpfile" /\ last.td # PyNone /\ last.td[1].raised)
        => last.td[1].path = gettempdir

\* C3: which returns the mtad executable when it exists, otherwise the
\* bundled one when it exists, and None exactly when neither exists; what it
\* returns existed when it was checked.
C3_WhichPrefersMtad ==
    last.op = "which" =>
        LET mtad == get_mtad_linter_path \o <<last.cmd \o ".exe">>
            bundled == get_bundled_linter_path \o <<last.cmd \o ".exe">>
        IN /\ (mtad \in last.observed => last.result = Some(mtad))
           /\ (mtad \notin last.observed /\ bundled \in last.observed
                  => last.result = Some(bundled))
           /\ (last.result = PyNone <=>
                  (mtad \notin last.observed /\ bundled \notin last.observed))
           /\ (last.result # PyNone => last.result[1] \in last.observed)

\* both executables exist and which answered with the mtad one
C3_Witness ==
    /\ last.op = "which"
    /\ Cardinality({e \in last.observed : e[Len(e)] = "at_code_checker.exe"}) = 2
    /\ last.result = Some(get_mtad_linter_path \o <<"at_code_checker.exe">>)

\* the diagnostic split_match returned is dropped
Dropped(out) ==
    /\ out.line = PyNone /\ out.col = PyNone /\ out.error = PyNone
    /\ out.warning = PyNone /\ out.message = PyNone /\ out.near = PyNone

\* C4: a diagnostic of an include file whose marker is not in the open
\* buffer is dropped.
C4_DroppedWithoutMarker ==
    (/\ last.op = "split_match"
     /\ last.match # PyNone
     /\ last.match[1].filename \in IncludeNames
     /\ \A i \in 1..Len(view) : view[i] # "File " \o last.match[1].filename)
        => Dropped(last.out)

\* C5: a diagnostic of the temp file keeps the line the framework parsed; a
\* diagnostic of an include file whose marker is in the open buffer is
\* reported at the row of the start of the marker's region plus one, near
\* the name of the include file, with its message and severity unchanged.
C5_LineOfDiagnostic ==
    (last.op = "split_match" /\ last.match # PyNone) =>
        LET m == last.match[1]
            sup == Linter_split_match(last.match)
            region == find(view, m.filename)
        IN /\ (m.filename \notin IncludeNames => last.out.line = sup.line)
           /\ (m.filename \in IncludeNames /\ region # PyNone) =>
                  /\ last.out.line = Some(row(view, region[1].a) + 1)
                  /\ last.out.near = Some(<<m.filename>>)
                  /\ last.out.message = Some(m.message)
                  /\ last.out.error = severity(sup).error
                  /\ last.out.warning = severity(sup).warning

\* C6: a step changes no entry of Dir_Map and removes none; it adds at most
\* the entry of the lowercased directory of the linted file, and only a
\* tmpdir call that finds no entry adds it; a tmpdir call that finds an
\* entry returns it and leaves every directory that existed in place.
C6_DirMapStable ==
    [][LET key == Lower(dirname(filename))
       IN /\ \A k \in DOMAIN Dir_Map :
                 k \in DOMAIN Dir_Map' /\ Dir_Map'[k] = Dir_Map[k]
          /\ DOMAIN Dir_Map' \subseteq DOMAIN Dir_Map \cup {key}
          /\ (Dir_Map' # Dir_Map =>
                 /\ pc = "idle" /\ last'.op = "tmpfile" /\ last'.td # PyNone
                 /\ ~last'.td[1].cached)
          /\ (/\ pc = "idle" /\ last'.op = "tmpfile" /\ filename' = filename
              /\ last'.td # PyNone /\ key \in DOMAIN Dir_Map)
                 => /\ last'.td[1].cached
                    /\ last'.td[1].path = Dir_Map[key]
                    /\ dirs \subseteq dirs'
                    /\ (last'.td[1].existed => dirs' = dirs)
                    /\ (~last'.td[1].raised => Lower(Dir_Map[key]) \in dirs')
      ]_vars

\* a cached directory was gone and tmpdir created it again
C6_Witness ==
    /\ last.op = "tmpfile"
    /\ last.td # PyNone
    /\ last.td[1].cached
    /\ ~last.td[1].existed
    /\ last.td[1].path # gettempdir
    /\ Lower(last.td[1].path) \in dirs

\* C7: view.find runs only for a diagnostic of an include file when
\* LastIncludeMatch is None or holds another (filename, name) pair; it does
\* not run for a diagnostic that names the include file the diagnostic
\* before it named; LastIncludeMatch is the pair and region of the last
\* search and changes only with a search.
C7_SearchOnlyOnNewPair ==
    [][(last'.op = "split_match" /\ (last' # last \/ LastIncludeMatch' # LastIncludeMatch)) =>
          LET m == last'.match
              inc == m # PyNone /\ m[1].filename \in IncludeNames
          IN /\ last'.searched =>
                    /\ inc
                    /\ \/ LastIncludeMatch = PyNone
                       \/ <<LastIncludeMatch[1][1], LastIncludeMatch[1][2]>>
                              # <<filename, m[1].filename>>
                    /\ LastIncludeMatch' =
                           Some(<<filename, m[1].filename,
                                  find(view, m[1].filename)>>)
             /\ ~last'.searched => LastIncludeMatch' = LastIncludeMatch
             /\ (/\ inc
                 /\ last.op = "split_match"
                 /\ last.match # PyNone
                 /\ last.match[1].filename = m[1].filename)
                    => ~last'.searched
      ]_vars

\* a diagnostic of an include file was answered from LastIncludeMatch
C7_Witness ==
    /\ last.op = "split_match"
    /\ last.match # PyNone
    /\ last.match[1].filename \in IncludeNames
    /\ ~last.searched
    /\ LastIncludeMatch # PyNone
    /\ LastIncludeMatch[1][3] # PyNone
    /\ ~Dropped(last.out)

\* the message of the match split_match was given
MessageOf(match) == IF match = PyNone THEN <<>> ELSE match[1].message

\* exactly one of error and warning is truthy
OneSeverity(out) == Truthy(out.error) # Truthy(out.warning)

\* C8 as stated: a diagnostic that is not dropped has exactly one severity:
\* warning when 'has no :Doc' occurs after the first character of the
\* message, else error when no keyword group matched, else the group.
C8_SeverityAsStated ==
    (last.op = "split_match" /\ ~Dropped(last.out)) =>
        LET msg == MessageOf(last.match)
            g == regex(msg)
        IN /\ OneSeverity(last.out)
           /\ IF \E i \in 2..Len(msg) : msg[i] = NoDoc
              THEN Truthy(last.out.warning)
              ELSE IF g.warning = PyNone /\ g.error = PyNone
                   THEN Truthy(last.out.error)
                   ELSE /\ (g.warning # PyNone => Truthy(last.out.warning))
                        /\ (g.error # PyNone => Truthy(last.out.error))

\* C8 amended: as C8, with warning when the first occurrence of
\* 'has no :Doc' is after the first character of the message.
C8_Severity ==
    (last.op = "split_match" /\ ~Dropped(last.out)) =>
        LET msg == MessageOf(last.match)
            g == regex(msg)
        IN /\ OneSeverity(last.out)
           /\ IF (\E i \in 2..Len(msg) : msg[i] = NoDoc) /\ msg[1] # NoDoc
              THEN Truthy(last.out.warning)
              ELSE IF g.warning = PyNone /\ g.error = PyNone
                   THEN Truthy(last.out.error)
                   ELSE /\ (g.warning # PyNone => Truthy(last.out.warning))
                        /\ (g.error # PyNone => Truthy(last.out.error))

\* the error group matched and 'has no :Doc' made the diagnostic a warning
C8_Witness ==
    /\ last.op = "split_match"
    /\ ~Dropped(last.out)
    /\ regex(MessageOf(last.match)).error # PyNone
    /\ Truthy(last.out.warning)
    /\ ~Truthy(last.out.error)

\* C9: while nobody else changed the file system, tmpdir returns the
\* directory get_temp_dir computes for the file.
C9_MemoizationTransparent ==
    (~envTouched /\ last.op = "tmpfile" /\ last.td # PyNone)
        => Lower(last.td[1].path) = Lower(last.td[1].fresh)

\* C10: a tmpfile call for a file whose path contains 'DataDefs' or
\* '!DictionarySource' returns '' and changes no directory, no temp file,
\* no entry of Dir_Map, and launches nothing.
C10_SkippedHasNoEffect ==
    [][(/\ pc = "idle"
        /\ last'.op = "tmpfile"
        /\ filename' = filename
        /\ In("DataDefs", filename) \/ In("!DictionarySource", filename))
          => /\ last'.out = "" /\ last'.outcome = "returned"
             /\ pc' = "idle"
             /\ UNCHANGED <<dirs, tempFiles, Dir_Map, launched, temp>>
      ]_vars

\* tmpfile was called for a !DictionarySource file after Dir_Map was filled
C10_Witness ==
    /\ last.op = "tmpfile"
    /\ In("!DictionarySource", last.file)
    /\ last.out = "" /\ last.outcome = "returned"
    /\ Dir_Map # EmptyMap

====
